---- MODULE Spec2Model ----
(***************************************************************************)
(* clipboard-pro: the Electron host's clipboard watchers                   *)
(* (electron/main.cjs and the second host script, part_000), the renderer  *)
(* (src/App.tsx: history store, privacy mode, runAI) and the collaborators *)
(* they talk to (OS clipboard, localStorage, the remote chat-completion    *)
(* endpoint, the IPC channels).                                            *)
(*                                                                         *)
(* JavaScript strings are TLA+ strings; "" is the empty (falsy) string.    *)
(***************************************************************************)
EXTENDS Integers, Sequences, FiniteSets, TLC

(***************************************************************************)
(* Bounds of the model.                                                    *)
(***************************************************************************)
MaxTime == 2
MaxQueue == 1
MaxPending == 2
MaxPaste == 1

(***************************************************************************)
(* Values the environment can put on the OS clipboard.                     *)
(***************************************************************************)
TxtA == "hello"
TxtB == "x=>1"
Texts == {"", TxtA, TxtB}
\* a text the user copies only while privacy mode is on
TxtSecret == "pw"

NoImage == [empty |-> TRUE, dataURL |-> "data:image/png;base64,"]
ImgA == [empty |-> FALSE, dataURL |-> "data:image/png;base64,AA"]
ImgB == [empty |-> FALSE, dataURL |-> "data:image/png;base64,BB"]
Images == {NoImage, ImgA, ImgB}

(***************************************************************************)
(* String helpers (JavaScript String.prototype).                           *)
(***************************************************************************)
CharAt(s, i) == IF i >= 1 /\ i <= Len(s) THEN SubSeq(s, i, i) ELSE ""

StartsWithAt(s, i, lit) ==
  /\ i >= 1
  /\ i + Len(lit) - 1 <= Len(s)
  /\ SubSeq(s, i, i + Len(lit) - 1) = lit

Includes(s, m) ==
  \/ Len(m) = 0
  \/ \E i \in 1..Len(s) : StartsWithAt(s, i, m)

Digits == "0123456789"
IsDigit(c) == Len(c) = 1 /\ \E d \in 1..10 : SubSeq(Digits, d, d) = c
DigitVal(c) == CHOOSE d \in 0..9 : SubSeq(Digits, d + 1, d + 1) = c

RECURSIVE NumStr(_)
NumStr(n) ==
  IF n < 10 THEN SubSeq(Digits, n + 1, n + 1)
  ELSE NumStr(n \div 10) \o SubSeq(Digits, (n % 10) + 1, (n % 10) + 1)

Pad3(n) ==
  IF n < 10 THEN "00" \o NumStr(n)
  ELSE IF n < 100 THEN "0" \o NumStr(n)
  ELSE NumStr(n)

\* new Date(ms).toISOString(), for the first second of the epoch
toISOString(ms) == "1970-01-01T00:00:00." \o Pad3(ms) \o "Z"

(***************************************************************************)
(* JSON.stringify / JSON.parse of the history list.                        *)
(***************************************************************************)
Quote == "\""
Backslash == "\\"

RECURSIVE EscapeFrom(_, _)
EscapeFrom(s, i) ==
  IF i > Len(s) THEN ""
  ELSE LET c == SubSeq(s, i, i)
       IN (IF c = Quote \/ c = Backslash THEN Backslash \o c ELSE c)
            \o EscapeFrom(s, i + 1)

\* a serializer that writes the characters of a string as they are
JSONString_raw(s) == Quote \o s \o Quote

JSONString(s) == Quote \o EscapeFrom(s, 1) \o Quote

JSONEntry(e) ==
  "{" \o Quote \o "id" \o Quote \o ":" \o NumStr(e.id)
      \o "," \o Quote \o "content" \o Quote \o ":" \o JSONString(e.content)
      \o "," \o Quote \o "timestamp" \o Quote \o ":" \o JSONString(e.timestamp)
      \o "}"

RECURSIVE JSONEntriesFrom(_, _)
JSONEntriesFrom(items, i) ==
  IF i > Len(items) THEN ""
  ELSE (IF i > 1 THEN "," ELSE "") \o JSONEntry(items[i])
         \o JSONEntriesFrom(items, i + 1)

JSONstringify(items) == "[" \o JSONEntriesFrom(items, 1) \o "]"

Fail == [ok |-> FALSE, val |-> "SyntaxError", next |-> 0]

\* a JSON string literal starting at s[i]
RECURSIVE ParseStringBody(_, _, _)
ParseStringBody(s, i, acc) ==
  IF i > Len(s) THEN Fail
  ELSE LET c == SubSeq(s, i, i)
       IN IF c = Quote THEN [ok |-> TRUE, val |-> acc, next |-> i + 1]
          ELSE IF c = Backslash
            THEN LET d == CharAt(s, i + 1)
                 IN IF d = Quote \/ d = Backslash
                      THEN ParseStringBody(s, i + 2, acc \o d)
                      ELSE Fail
            ELSE ParseStringBody(s, i + 1, acc \o c)

ParseString(s, i) ==
  IF CharAt(s, i) = Quote THEN ParseStringBody(s, i + 1, "") ELSE Fail

RECURSIVE ParseDigits(_, _, _)
ParseDigits(s, i, acc) ==
  IF IsDigit(CharAt(s, i))
    THEN ParseDigits(s, i + 1, acc * 10 + DigitVal(CharAt(s, i)))
    ELSE [ok |-> TRUE, val |-> acc, next |-> i]

ParseNumber(s, i) ==
  IF IsDigit(CharAt(s, i)) THEN ParseDigits(s, i, 0) ELSE Fail

\* the member  "key":  at s[i]; the position after it, or 0
AfterKey(s, i, key) ==
  LET lit == Quote \o key \o Quote \o ":"
  IN IF StartsWithAt(s, i, lit) THEN i + Len(lit) ELSE 0

ParseEntry(s, i) ==
  IF CharAt(s, i) # "{" THEN Fail
  ELSE LET k1 == AfterKey(s, i + 1, "id")
           n  == IF k1 = 0 THEN Fail ELSE ParseNumber(s, k1)
           k2 == IF n.ok /\ CharAt(s, n.next) = ","
                   THEN AfterKey(s, n.next + 1, "content") ELSE 0
           c  == IF k2 = 0 THEN Fail ELSE ParseString(s, k2)
           k3 == IF c.ok /\ CharAt(s, c.next) = ","
                   THEN AfterKey(s, c.next + 1, "timestamp") ELSE 0
           t  == IF k3 = 0 THEN Fail ELSE ParseString(s, k3)
       IN IF t.ok /\ CharAt(s, t.next) = "}"
            THEN [ok |-> TRUE,
                  val |-> [id |-> n.val, content |-> c.val, timestamp |-> t.val],
                  next |-> t.next + 1]
            ELSE Fail

RECURSIVE ParseEntries(_, _, _)
ParseEntries(s, i, acc) ==
  LET e == ParseEntry(s, i)
  IN IF ~e.ok THEN Fail
     ELSE IF CharAt(s, e.next) = ","
       THEN ParseEntries(s, e.next + 1, Append(acc, e.val))
       ELSE IF CharAt(s, e.next) = "]" /\ e.next = Len(s)
         THEN [ok |-> TRUE, val |-> Append(acc, e.val), next |-> e.next + 1]
         ELSE Fail

\* JSON.parse of a document holding a list of history entries; ok = FALSE
\* stands for the SyntaxError it throws
JSONparse(s) ==
  IF s = "[]" THEN [ok |-> TRUE, val |-> <<>>, next |-> 3]
  ELSE IF CharAt(s, 1) = "[" THEN ParseEntries(s, 2, <<>>)
  ELSE Fail

(***************************************************************************)
(* State.                                                                  *)
(***************************************************************************)
VARIABLES
  osClipboard,    \* text on the OS clipboard (clipboard.readText())
  osImage,        \* image on the OS clipboard (clipboard.readImage())
  lastText,       \* part_000: let lastText
  prevRead,       \* part_000: the text its most recent sample read
  ipc,            \* part_000: 'clipboard-changed' messages not yet delivered
  mLastText,      \* main.cjs: let lastText
  mLastImage,     \* main.cjs: let lastImage
  mPrevRead,      \* main.cjs: the text its most recent sample read
  mipc,           \* main.cjs: 'clipboard-changed' messages not yet delivered
  phase,          \* renderer: "boot", "running" or "crashed"
  clipboardText,  \* App.tsx useState, lines 47-60
  query,
  actions,
  result,
  isLoading,
  selectedIndex,
  isPrivacyMode,
  apiKey,
  showSettings,
  historyItems,
  view,
  lsHistory,      \* localStorage["clipboard-history"]
  lsApiKey,       \* localStorage["groq-api-key"]
  now,            \* Date.now()
  pending,        \* fetch calls of runAI that have not settled
  pasteSent,      \* 'smart-paste' messages sent and not yet handled by the host
  host,           \* the host script that created the window: Part000 or MainCjs
  window,         \* mainWindow: "focused", "blurred" (visible, another
                  \* application has the input focus) or "hidden"
  timers,         \* main.cjs: setTimeout callbacks of smart-paste not yet run
  uncaught,       \* an exception has left a polling callback of the host
  lastOp,         \* the handler that ran last, and what it was given
  afterPrivacy    \* ended: privacy mode was on and has been switched off;
                  \* text: the last non-empty text copied since then, or ""
                  \* exposed: TxtSecret has been on the OS clipboard
                  \* while privacy mode was off

osVars == <<osClipboard, osImage>>
host000Vars == <<lastText, prevRead, ipc>>
hostMainVars == <<mLastText, mLastImage, mPrevRead, mipc>>
uiVars == <<query, actions, result, isLoading, selectedIndex, showSettings, view>>
rendVars == <<phase, clipboardText, isPrivacyMode, apiKey, historyItems>>
lsVars == <<lsHistory, lsApiKey>>
hostVars == <<host, window, timers, uncaught>>
aiVars == <<pending, pasteSent, hostVars>>
vars == <<osVars, host000Vars, hostMainVars, uiVars, rendVars, lsVars, aiVars,
          now, lastOp, afterPrivacy>>

\* lastOp: the handler, the text it was given, whether it took effect, whether
\* the history already held that text, and the history's length before it ran
Op(name, text, flag, had, len) ==
  [op |-> name, text |-> text, flag |-> flag, had |-> had, len |-> len]

Holds(items, content) == \E i \in 1..Len(items) : items[i].content = content

\* localStorage.getItem: null when the key is absent
Absent == [present |-> FALSE, value |-> ""]
Stored(s) == [present |-> TRUE, value |-> s]

(***************************************************************************)
(* The main process is one of the two host scripts. part_000 creates its   *)
(* window with show: true and focuses it when it is ready to show (lines   *)
(* 8-31); main.cjs creates it with show: false (lines 9-24).               *)
(***************************************************************************)
Part000 == "part_000"
MainCjs == "main.cjs"
Hosts == {Part000, MainCjs}

InitialWindow(h) == IF h = Part000 THEN "focused" ELSE "hidden"

\* globalShortcut 'Alt+Space', the same in both scripts
AltSpace ==
  /\ window' = IF window # "hidden" THEN "hidden" ELSE "focused"
  /\ UNCHANGED <<osVars, host000Vars, hostMainVars, uiVars, rendVars, lsVars,
                 pending, pasteSent, host, timers, uncaught, now, lastOp,
                 afterPrivacy>>

\* the user clicks into another application; the window stays on top
Blur ==
  /\ window = "focused"
  /\ window' = "blurred"
  /\ UNCHANGED <<osVars, host000Vars, hostMainVars, uiVars, rendVars, lsVars,
                 pending, pasteSent, host, timers, uncaught, now, lastOp,
                 afterPrivacy>>

\* the user clicks into the window again
FocusWindow ==
  /\ window = "blurred"
  /\ window' = "focused"
  /\ UNCHANGED <<osVars, host000Vars, hostMainVars, uiVars, rendVars, lsVars,
                 pending, pasteSent, host, timers, uncaught, now, lastOp,
                 afterPrivacy>>

(***************************************************************************)
(* The OS clipboard: the user copies a text or an image in any application.*)
(***************************************************************************)
\* bookkeeping of afterPrivacy when text t is put on the OS clipboard
AfterCopy(t) ==
  [ended   |-> afterPrivacy.ended,
   text    |-> IF afterPrivacy.ended /\ t # "" THEN t ELSE afterPrivacy.text,
   exposed |-> afterPrivacy.exposed \/ (t = TxtSecret /\ ~isPrivacyMode)]

OSCopy(t, img) ==
  /\ <<t, img>> # <<osClipboard, osImage>>
  /\ osClipboard' = t
  /\ osImage' = img
  /\ afterPrivacy' = AfterCopy(t)
  /\ UNCHANGED <<host000Vars, hostMainVars, uiVars, rendVars, lsVars, aiVars, now,
                 lastOp>>

ClockAdvance ==
  /\ now < MaxTime
  /\ now' = now + 1
  /\ UNCHANGED <<osVars, host000Vars, hostMainVars, uiVars, rendVars, lsVars,
                 aiVars, lastOp,
                 afterPrivacy>>

(***************************************************************************)
(* part_000: the polling callback, lines 56-62.                            *)
(***************************************************************************)
\* a callback that sends on every sample
Changed000_always(currentText, last) == TRUE

Changed000(currentText, last) == currentText # last

Tick000 ==
  LET currentText == osClipboard
  IN /\ Len(ipc) < MaxQueue
     /\ IF Changed000(currentText, lastText)
          THEN /\ lastText' = currentText
               /\ ipc' = Append(ipc, currentText)
          ELSE UNCHANGED <<lastText, ipc>>
     /\ prevRead' = currentText
     /\ lastOp' = Op("tick000", currentText, Changed000(currentText, lastText), FALSE, 0)
     /\ UNCHANGED <<osVars, hostMainVars, uiVars, rendVars, lsVars, aiVars, now,
                 afterPrivacy>>

(***************************************************************************)
(* electron/main.cjs: the polling callback, lines 61-78.                   *)
(***************************************************************************)
TextMsg(t) == [type |-> "text", content |-> t]
ImageMsg(u) == [type |-> "image", content |-> u]

ChangedText(currentText, last) == currentText # "" /\ currentText # last

ChangedImage(img, last) == ~img.empty /\ img.dataURL # last

TickMain ==
  LET currentText == osClipboard
      img == osImage
      textMsgs == IF ChangedText(currentText, mLastText)
                    THEN <<TextMsg(currentText)>> ELSE <<>>
      imageMsgs == IF ChangedImage(img, mLastImage)
                     THEN <<ImageMsg(img.dataURL)>> ELSE <<>>
  IN /\ Len(mipc) < MaxQueue
     /\ mLastText' = IF ChangedText(currentText, mLastText)
                       THEN currentText ELSE mLastText
     /\ mLastImage' = IF ChangedImage(img, mLastImage)
                        THEN img.dataURL ELSE mLastImage
     /\ mipc' = mipc \o textMsgs \o imageMsgs
     /\ mPrevRead' = currentText
     /\ lastOp' = Op("tickMain", currentText, ChangedText(currentText, mLastText), FALSE, 0)
     /\ UNCHANGED <<osVars, host000Vars, uiVars, rendVars, lsVars, aiVars, now,
                 afterPrivacy>>

(***************************************************************************)
(* A clipboard read that throws. Neither callback has a try block, so the  *)
(* exception ends the callback where it is and leaves it; the interval     *)
(* timer stays armed.                                                      *)
(***************************************************************************)
\* part_000, line 57 throws
Tick000ReadFails ==
  /\ uncaught' = TRUE
  /\ lastOp' = Op("tick000", "", FALSE, TRUE, 0)
  /\ UNCHANGED <<osVars, host000Vars, hostMainVars, uiVars, rendVars, lsVars,
                 pending, pasteSent, host, window, timers, now, afterPrivacy>>

\* main.cjs, line 63 throws: the image check of lines 70-77 does not run
TickMainReadFails ==
  /\ uncaught' = TRUE
  /\ lastOp' = Op("tickMain", "", FALSE, TRUE, 0)
  /\ UNCHANGED <<osVars, host000Vars, hostMainVars, uiVars, rendVars, lsVars,
                 pending, pasteSent, host, window, timers, now, afterPrivacy>>

(***************************************************************************)
(* webContents.send to a window whose page has no listener (the renderer   *)
(* is not mounted): the message is delivered to nobody.                    *)
(***************************************************************************)
DropUnheard000 ==
  /\ phase # "running"
  /\ ipc # <<>>
  /\ ipc' = Tail(ipc)
  /\ lastOp' = Op("drop000", Head(ipc), FALSE, FALSE, 0)
  /\ UNCHANGED <<osVars, lastText, prevRead, hostMainVars, uiVars, rendVars,
                 lsVars, aiVars, now,
                 afterPrivacy>>

DropUnheardMain ==
  /\ phase # "running"
  /\ mipc # <<>>
  /\ mipc' = Tail(mipc)
  /\ lastOp' = Op("dropMain", Head(mipc).content, FALSE, FALSE, 0)
  /\ UNCHANGED <<osVars, host000Vars, mLastText, mLastImage, mPrevRead, uiVars,
                 rendVars, lsVars, aiVars, now,
                 afterPrivacy>>

(***************************************************************************)
(* src/App.tsx: presets and detectActions, lines 34-42 and 103-117.        *)
(***************************************************************************)
PRESETS == <<
  [id |-> "fix-grammar", label |-> "Fix Grammar & Style", category |-> "text",
   prompt |-> "Reword this to be grammatically correct, professional, and clear: "],
  [id |-> "translate-sinhala", label |-> "Translate to Sinhala", category |-> "text",
   prompt |-> "Translate this text accurately to Sinhala: "],
  [id |-> "convert-camel", label |-> "CamelCase Converter", category |-> "text",
   prompt |-> "Convert the following text or variable names to camelCase: "],
  [id |-> "explain-code", label |-> "Explain Code Logic", category |-> "code",
   prompt |-> "Explain how this code works in simple terms: "],
  [id |-> "refactor-code", label |-> "Optimize & Refactor", category |-> "code",
   prompt |-> "Refactor this code for better performance, clean code principles, and readability: "],
  [id |-> "summarize", label |-> "Smart Summary", category |-> "text",
   prompt |-> "Summarize the key points of this text in concise bullet points: "],
  [id |-> "bug-finder", label |-> "Find Potential Bugs", category |-> "code",
   prompt |-> "Review this code and identify any potential bugs, security risks, or edge cases: "] >>

Upper == "ABCDEFGHIJKLMNOPQRSTUVWXYZ"
Lower == "abcdefghijklmnopqrstuvwxyz"

\* the lower-case letter of each upper-case letter
LowerOf == [c \in {SubSeq(Upper, k, k) : k \in 1..Len(Upper)} |->
              LET k == CHOOSE j \in 1..Len(Upper) : SubSeq(Upper, j, j) = c
              IN SubSeq(Lower, k, k)]

LowerChar(c) == IF c \in DOMAIN LowerOf THEN LowerOf[c] ELSE c

RECURSIVE LowerFrom(_, _)
LowerFrom(s, i) ==
  IF i > Len(s) THEN "" ELSE LowerChar(SubSeq(s, i, i)) \o LowerFrom(s, i + 1)

toLowerCase(s) == LowerFrom(s, 1)

\* a classifier that does not know the arrow token
IsCode_noArrow(clip) ==
  LET text == toLowerCase(clip)
  IN Includes(text, "{") \/ Includes(text, "function") \/ Includes(text, "const ")
     \/ Includes(text, "import ") \/ Includes(text, "</div>")
     \/ Includes(text, "public class") \/ Includes(text, "def ")

IsCode(clip) ==
  LET text == toLowerCase(clip)
  IN Includes(text, "{") \/ Includes(text, "function") \/ Includes(text, "const ")
     \/ Includes(text, "import ") \/ Includes(text, "</div>")
     \/ Includes(text, "public class") \/ Includes(text, "def ")
     \/ Includes(text, "=>")

DetectActions(clip, q) ==
  LET isCode == IsCode(clip)
      byKind == SelectSeq(PRESETS, LAMBDA p :
                  p.category = "all"
                  \/ (IF isCode THEN p.category = "code" ELSE p.category = "text"))
  IN IF q # ""
       THEN SelectSeq(byKind, LAMBDA a :
              Includes(toLowerCase(a.label), toLowerCase(q)))
       ELSE byKind

(***************************************************************************)
(* src/App.tsx: the history store, lines 56-59 and 86-101.                 *)
(***************************************************************************)
HistoryCap == 30

Min(a, b) == IF a <= b THEN a ELSE b

\* the useState initializer of historyItems; ok = FALSE when it throws
LoadHistory(saved) ==
  IF saved.present /\ saved.value # ""
    THEN JSONparse(saved.value)
    ELSE [ok |-> TRUE, val |-> <<>>, next |-> 0]

NewEntry(content, t) ==
  [id |-> t, content |-> content, timestamp |-> toISOString(t)]

\* saveToHistory without the filter that removes the prior occurrence
saveToHistory_keepsDuplicate(prev, content, t) ==
  LET all == <<NewEntry(content, t)>> \o prev
  IN SubSeq(all, 1, Min(Len(all), HistoryCap))

\* saveToHistory without the slice
saveToHistory_noCap(prev, content, t) ==
  <<NewEntry(content, t)>> \o SelectSeq(prev, LAMBDA i : i.content # content)

\* saveToHistory that puts the new entry behind the others
saveToHistory_appends(prev, content, t) ==
  LET filtered == SelectSeq(prev, LAMBDA i : i.content # content)
      all == filtered \o <<NewEntry(content, t)>>
  IN SubSeq(all, 1, Min(Len(all), HistoryCap))

saveToHistory(prev, content, t) ==
  LET filtered == SelectSeq(prev, LAMBDA i : i.content # content)
      all == <<NewEntry(content, t)>> \o filtered
  IN SubSeq(all, 1, Min(Len(all), HistoryCap))

deleteHistoryItem(prev, id) == SelectSeq(prev, LAMBDA item : item.id # id)

\* the effect of lines 68-70, run after every commit that changed historyItems
PersistHistory(items) == Stored(JSONstringify(items))

(***************************************************************************)
(* src/App.tsx: mounting the component, lines 46-70 and 119-121.           *)
(***************************************************************************)
Startup ==
  /\ phase = "boot"
  /\ LET loaded == LoadHistory(lsHistory)
         key == IF lsApiKey.present THEN lsApiKey.value ELSE ""
     IN IF loaded.ok
          THEN /\ phase' = "running"
               /\ apiKey' = key
               /\ historyItems' = loaded.val
               /\ lsApiKey' = Stored(key)
               /\ lsHistory' = PersistHistory(loaded.val)
               /\ actions' = DetectActions("", "")
               /\ selectedIndex' = 0
               /\ lastOp' = Op("startup", lsHistory.value, TRUE, FALSE, 0)
          ELSE /\ phase' = "crashed"
               /\ lastOp' = Op("startup", lsHistory.value, FALSE, FALSE, 0)
               /\ UNCHANGED <<apiKey, historyItems, lsVars, actions, selectedIndex>>
  /\ UNCHANGED <<osVars, host000Vars, hostMainVars, query, result, isLoading,
                 showSettings, view, clipboardText, isPrivacyMode, aiVars, now,
                 afterPrivacy>>

(***************************************************************************)
(* src/App.tsx: handleClipboard, lines 72-84, with saveToHistory and the   *)
(* effects its state changes trigger (persist, detectActions).             *)
(***************************************************************************)
\* handleClipboard without the privacy-mode test
Accepts_ignoresPrivacy(privacy, text, current) == text # "" /\ text # current

Accepts(privacy, text, current) == ~privacy /\ text # "" /\ text # current

HandleClipboard ==
  /\ phase = "running"
  /\ ipc # <<>>
  /\ LET text == Head(ipc)
     IN /\ ipc' = Tail(ipc)
        /\ lastOp' = Op("handleClipboard", text,
                        Accepts(isPrivacyMode, text, clipboardText),
                        Holds(historyItems, text), Len(historyItems))
        /\ IF Accepts(isPrivacyMode, text, clipboardText)
             THEN /\ clipboardText' = text
                  /\ historyItems' = saveToHistory(historyItems, text, now)
                  /\ lsHistory' = PersistHistory(historyItems')
                  /\ actions' = DetectActions(text, query)
                  /\ selectedIndex' = 0
             ELSE UNCHANGED <<clipboardText, historyItems, lsHistory, actions,
                              selectedIndex>>
  /\ UNCHANGED <<osVars, lastText, prevRead, hostMainVars, query, result,
                 isLoading, showSettings, view, phase, isPrivacyMode, apiKey,
                 lsApiKey, aiVars, now,
                 afterPrivacy>>

(***************************************************************************)
(* src/App.tsx: handleClipboard given a message of electron/main.cjs. Its  *)
(* second argument is the object {type, content} of main.cjs lines 66 and  *)
(* 75: an object is truthy and !== every string, so the test of line 74    *)
(* comes down to !isPrivacyMode, and lines 75-76 put the object itself in  *)
(* clipboardText and in the content of the new entry. The render that      *)
(* follows has the object as a child of the preview (line 323) or of the   *)
(* entry's row (line 296), which React rejects with an exception: the tree *)
(* is unmounted before any effect runs. Only the settings panel renders    *)
(* neither; there the persist effect (lines 68-70) writes the entry, and   *)
(* detectActions (line 104) then throws on clipboardText.toLowerCase.      *)
(***************************************************************************)
\* JSON.stringify of a message object of main.cjs
JSONMsg(m) ==
  "{" \o Quote \o "type" \o Quote \o ":" \o JSONString(m.type)
      \o "," \o Quote \o "content" \o Quote \o ":" \o JSONString(m.content)
      \o "}"

\* JSON.stringify of the entry saveToHistory builds around a message object
JSONObjEntry(m, t) ==
  "{" \o Quote \o "id" \o Quote \o ":" \o NumStr(t)
      \o "," \o Quote \o "content" \o Quote \o ":" \o JSONMsg(m)
      \o "," \o Quote \o "timestamp" \o Quote \o ":" \o JSONString(toISOString(t))
      \o "}"

\* the effect of lines 68-70 on the list saveToHistory makes of a message
\* object and the entries before it: none of them is filtered out
PersistWithObject(prev, m, t) ==
  LET kept == SubSeq(prev, 1, Min(Len(prev), HistoryCap - 1))
  IN Stored("[" \o JSONObjEntry(m, t)
                \o (IF kept = <<>> THEN "" ELSE "," \o JSONEntriesFrom(kept, 1))
                \o "]")

HandleClipboardMain ==
  /\ phase = "running"
  /\ host = MainCjs
  /\ mipc # <<>>
  /\ LET payload == Head(mipc)
     IN /\ mipc' = Tail(mipc)
        /\ lastOp' = Op("handleClipboard", payload.content, ~isPrivacyMode,
                        FALSE, Len(historyItems))
        /\ IF ~isPrivacyMode
             THEN /\ phase' = "crashed"
                  /\ lsHistory' = IF showSettings
                                    THEN PersistWithObject(historyItems, payload, now)
                                    ELSE lsHistory
             ELSE UNCHANGED <<phase, lsHistory>>
  /\ UNCHANGED <<osVars, host000Vars, mLastText, mLastImage, mPrevRead, uiVars,
                 clipboardText, isPrivacyMode, apiKey, historyItems, lsApiKey,
                 aiVars, now, afterPrivacy>>

(***************************************************************************)
(* src/App.tsx: buttons of the header, the footer and the history view.    *)
(***************************************************************************)
HistoryShown ==
  phase = "running" /\ ~showSettings /\ view = "history" /\ window # "hidden"

DeleteHistoryItem(idx) ==
  /\ HistoryShown
  /\ idx \in 1..Len(historyItems)
  /\ historyItems' = deleteHistoryItem(historyItems, historyItems[idx].id)
  /\ lsHistory' = PersistHistory(historyItems')
  /\ lastOp' = Op("delete", historyItems[idx].content, TRUE, FALSE, Len(historyItems))
  /\ UNCHANGED <<osVars, host000Vars, hostMainVars, uiVars, phase, clipboardText,
                 isPrivacyMode, apiKey, lsApiKey, aiVars, now,
                 afterPrivacy>>

ClearHistory(confirmed) ==
  /\ HistoryShown
  /\ IF confirmed
       THEN /\ historyItems' = <<>>
            /\ lsHistory' = PersistHistory(historyItems')
       ELSE UNCHANGED <<historyItems, lsHistory>>
  /\ lastOp' = Op("clear", "", confirmed, FALSE, Len(historyItems))
  /\ UNCHANGED <<osVars, host000Vars, hostMainVars, uiVars, phase, clipboardText,
                 isPrivacyMode, apiKey, lsApiKey, aiVars, now,
                 afterPrivacy>>

RestoreClick(idx) ==
  /\ HistoryShown
  /\ idx \in 1..Len(historyItems)
  /\ osClipboard' = historyItems[idx].content
  /\ osImage' = NoImage
  /\ view' = "actions"
  /\ afterPrivacy' = AfterCopy(historyItems[idx].content)
  /\ lastOp' = Op("restoreClick", historyItems[idx].content, TRUE, FALSE, 0)
  /\ UNCHANGED <<host000Vars, hostMainVars, query, actions, result, isLoading,
                 selectedIndex, showSettings, rendVars, lsVars, aiVars, now>>

TogglePrivacy ==
  /\ phase = "running"
  /\ isPrivacyMode' = ~isPrivacyMode
  /\ afterPrivacy' = [ended |-> isPrivacyMode, text |-> "",
                       exposed |-> afterPrivacy.exposed
                                   \/ (isPrivacyMode /\ osClipboard = TxtSecret)]
  /\ lastOp' = Op("togglePrivacy", "", ~isPrivacyMode, FALSE, 0)
  /\ UNCHANGED <<osVars, host000Vars, hostMainVars, uiVars, phase, clipboardText,
                 apiKey, historyItems, lsVars, aiVars, now>>

ToggleSettings ==
  /\ phase = "running"
  /\ showSettings' = ~showSettings
  /\ lastOp' = Op("toggleSettings", "", ~showSettings, FALSE, 0)
  /\ UNCHANGED <<osVars, host000Vars, hostMainVars, query, actions, result,
                 isLoading, selectedIndex, view, rendVars, lsVars, aiVars, now,
                 afterPrivacy>>

ToggleView ==
  /\ phase = "running"
  /\ view' = IF view = "actions" THEN "history" ELSE "actions"
  /\ lastOp' = Op("toggleView", view', TRUE, FALSE, 0)
  /\ UNCHANGED <<osVars, host000Vars, hostMainVars, query, actions, result,
                 isLoading, selectedIndex, showSettings, rendVars, lsVars,
                 aiVars, now,
                 afterPrivacy>>

(***************************************************************************)
(* src/App.tsx: runAI, lines 123-167, and the fetch it awaits.             *)
(***************************************************************************)
Arg(kind, text) == [kind |-> kind, text |-> text]

Undefined == Arg("undefined", "")

\* actions[i] for a 0-based index i
ActionAt(i) ==
  IF i >= 0 /\ i < Len(actions) THEN Arg("preset", actions[i + 1].prompt)
  ELSE Undefined

\* a runAI that uses a string argument as it is
PromptPrefix_raw(action) ==
  IF action.kind \in {"string", "preset"} THEN [ok |-> TRUE, text |-> action.text]
  ELSE [ok |-> FALSE, text |-> ""]

\* line 131; ok = FALSE when reading .prompt of undefined throws
PromptPrefix(action) ==
  IF action.kind = "string" THEN [ok |-> TRUE, text |-> action.text \o ": "]
  ELSE IF action.kind = "preset" THEN [ok |-> TRUE, text |-> action.text]
  ELSE [ok |-> FALSE, text |-> ""]

\* a template with a single line break between the prefix and the text
UserMessage_oneBreak(promptPrefix, clip) == promptPrefix \o "\n" \o clip

UserMessage(promptPrefix, clip) == promptPrefix \o "\n\n" \o clip

\* a runAI that asks for no credential
MissingKey_never(key) == FALSE

MissingKey(key) == key = ""

\* runAI(action), called from the control named trigger
RunAI(action, trigger) ==
  IF MissingKey(apiKey)
    THEN /\ showSettings' = TRUE
         /\ lastOp' = Op("runAI", trigger, FALSE, FALSE, 0)
         /\ UNCHANGED <<isLoading, result, pending>>
    ELSE /\ Len(pending) < MaxPending
         /\ isLoading' = TRUE
         /\ result' = ""
         /\ pending' = IF PromptPrefix(action).ok
                         THEN Append(pending,
                                [trigger |-> trigger,
                                 user |-> UserMessage(PromptPrefix(action).text,
                                                      clipboardText)])
                         ELSE pending
         /\ lastOp' = Op("runAI", trigger, PromptPrefix(action).ok, FALSE, 0)
         /\ UNCHANGED showSettings

ActionsShown ==
  phase = "running" /\ ~showSettings /\ view = "actions" /\ window # "hidden"

PresetTrigger(i) == "preset:" \o actions[i].id

\* line 339
ClickAction(idx) ==
  /\ ActionsShown
  /\ idx \in 1..Len(actions)
  /\ RunAI(Arg("preset", actions[idx].prompt), PresetTrigger(idx))
  /\ UNCHANGED <<osVars, host000Vars, hostMainVars, query, actions, selectedIndex,
                 view, rendVars, lsVars, pasteSent, hostVars, now, afterPrivacy>>

\* line 368
ClickCustom ==
  /\ ActionsShown
  /\ actions = <<>>
  /\ Len(query) > 2
  /\ RunAI(Arg("string", query), "custom")
  /\ UNCHANGED <<osVars, host000Vars, hostMainVars, query, actions, selectedIndex,
                 view, rendVars, lsVars, pasteSent, hostVars, now, afterPrivacy>>

\* handleKeyDown, e.key === "Enter", lines 178-186
KeyEnter ==
  /\ phase = "running"
  /\ window = "focused"
  /\ IF view = "actions"
       THEN IF Len(actions) > 0
              THEN /\ RunAI(ActionAt(selectedIndex), "enter")
                   /\ UNCHANGED <<osVars, view, afterPrivacy>>
              ELSE IF Len(query) > 2
                THEN /\ RunAI(Arg("string", query), "enter")
                     /\ UNCHANGED <<osVars, view, afterPrivacy>>
                ELSE /\ lastOp' = Op("enter", "", FALSE, FALSE, 0)
                     /\ UNCHANGED <<osVars, view, afterPrivacy, showSettings,
                                    isLoading, result, pending>>
       ELSE IF selectedIndex >= 0 /\ selectedIndex < Len(historyItems)
         THEN /\ osClipboard' = historyItems[selectedIndex + 1].content
              /\ osImage' = NoImage
              /\ afterPrivacy' = AfterCopy(historyItems[selectedIndex + 1].content)
              /\ view' = "actions"
              /\ result' = "Snippet restored to clipboard!"
              /\ lastOp' = Op("enter", historyItems[selectedIndex + 1].content,
                              TRUE, FALSE, 0)
              /\ UNCHANGED <<showSettings, isLoading, pending>>
         ELSE /\ lastOp' = Op("enter", "", FALSE, FALSE, 0)
              /\ UNCHANGED <<osVars, view, afterPrivacy, showSettings, isLoading,
                             result, pending>>
  /\ UNCHANGED <<host000Vars, hostMainVars, query, actions, selectedIndex,
                 rendVars, lsVars, pasteSent, hostVars, now>>

\* the JavaScript remainder a % n for n > 0: it has the sign of a
JSRem(a, n) == IF a >= 0 THEN a % n ELSE 0 - ((0 - a) % n)

Max(a, b) == IF a >= b THEN a ELSE b

\* the list that handleKeyDown steps through, lines 172 and 176
ShownList == IF view = "actions" THEN actions ELSE historyItems

\* handleKeyDown, e.key === "ArrowDown", lines 170-173
KeyArrowDown ==
  /\ phase = "running"
  /\ window = "focused"
  /\ selectedIndex' = JSRem(selectedIndex + 1, Max(Len(ShownList), 1))
  /\ lastOp' = Op("arrowDown", "", TRUE, FALSE, 0)
  /\ UNCHANGED <<osVars, host000Vars, hostMainVars, query, actions, result,
                 isLoading, showSettings, view, rendVars, lsVars, aiVars, now,
                 afterPrivacy>>

\* handleKeyDown, e.key === "ArrowUp", lines 174-177
KeyArrowUp ==
  /\ phase = "running"
  /\ window = "focused"
  /\ selectedIndex' = JSRem(selectedIndex - 1 + Len(ShownList),
                            Max(Len(ShownList), 1))
  /\ lastOp' = Op("arrowUp", "", TRUE, FALSE, 0)
  /\ UNCHANGED <<osVars, host000Vars, hostMainVars, query, actions, result,
                 isLoading, showSettings, view, rendVars, lsVars, aiVars, now,
                 afterPrivacy>>

\* onMouseEnter of an action button, line 340
MouseEnterAction(idx) ==
  /\ ActionsShown
  /\ idx \in 1..Len(actions)
  /\ selectedIndex' = idx - 1
  /\ lastOp' = Op("mouseEnter", "", TRUE, FALSE, 0)
  /\ UNCHANGED <<osVars, host000Vars, hostMainVars, query, actions, result,
                 isLoading, showSettings, view, rendVars, lsVars, aiVars, now,
                 afterPrivacy>>

\* onMouseEnter of a history entry, line 290
MouseEnterHistory(idx) ==
  /\ HistoryShown
  /\ idx \in 1..Len(historyItems)
  /\ selectedIndex' = idx - 1
  /\ lastOp' = Op("mouseEnter", "", TRUE, FALSE, 0)
  /\ UNCHANGED <<osVars, host000Vars, hostMainVars, query, actions, result,
                 isLoading, showSettings, view, rendVars, lsVars, aiVars, now,
                 afterPrivacy>>

\* handleKeyDown, e.key === "Escape", lines 187-192; the host's listener of
\* 'hide-window' (main.cjs 81-83, part_000 65-67) hides the window
KeyEscape ==
  /\ phase = "running"
  /\ window = "focused"
  /\ IF showSettings
       THEN /\ showSettings' = FALSE
            /\ UNCHANGED <<result, view, window>>
       ELSE IF result # ""
         THEN /\ result' = ""
              /\ UNCHANGED <<showSettings, view, window>>
         ELSE IF view = "history"
           THEN /\ view' = "actions"
                /\ UNCHANGED <<showSettings, result, window>>
           ELSE /\ window' = "hidden"
                /\ UNCHANGED <<showSettings, result, view>>
  /\ lastOp' = Op("escape", "", TRUE, FALSE, 0)
  /\ UNCHANGED <<osVars, host000Vars, hostMainVars, query, actions, isLoading,
                 selectedIndex, rendVars, lsVars, pending, pasteSent, host,
                 timers, uncaught, now, afterPrivacy>>

\* what the endpoint can answer: the fetch rejects, the body is not JSON, the
\* JSON has no choices field (with or without error.message), or it has one
NetworkError == [kind |-> "reject", message |-> "Failed to fetch", choices |-> <<>>]
MalformedBody == [kind |-> "badJSON", message |-> "Unexpected end of JSON input",
                  choices |-> <<>>]
ProviderError == [kind |-> "noChoices", message |-> "Invalid API Key",
                  choices |-> <<>>]
BareError == [kind |-> "noChoices", message |-> "", choices |-> <<>>]
EmptyChoices == [kind |-> "choices", message |-> "", choices |-> <<>>]
Completed == [kind |-> "choices", message |-> "", choices |-> <<" Bonjour ", "Salut">>]
\* a first choice whose text is white space only
BlankChoice == [kind |-> "choices", message |-> "", choices |-> <<" ">>]
Responses == {NetworkError, MalformedBody, ProviderError, BareError, EmptyChoices,
              Completed}

IsSpace(c) == c = " " \/ c = "\n" \/ c = "\t"

RECURSIVE TrimStart(_)
TrimStart(s) ==
  IF Len(s) > 0 /\ IsSpace(Head(s)) THEN TrimStart(Tail(s)) ELSE s

RECURSIVE TrimEnd(_)
TrimEnd(s) ==
  IF Len(s) > 0 /\ IsSpace(SubSeq(s, Len(s), Len(s)))
    THEN TrimEnd(SubSeq(s, 1, Len(s) - 1))
    ELSE s

trim(s) == TrimEnd(TrimStart(s))

ErrorResult(message) ==
  "Error: " \o (IF message # "" THEN message ELSE "Check your internet or API key")

\* lines 150-166: ok with the output, or the text of the catch block
Outcome(resp) ==
  IF resp.kind \in {"reject", "badJSON"}
    THEN [ok |-> FALSE, text |-> ErrorResult(resp.message)]
  ELSE IF resp.kind = "noChoices"
    THEN [ok |-> FALSE,
          text |-> ErrorResult(IF resp.message # "" THEN resp.message
                               ELSE "Invalid API Key or Rate Limit")]
  ELSE IF resp.choices = <<>>
    THEN [ok |-> FALSE,
          text |-> ErrorResult("Cannot read properties of undefined (reading 'message')")]
  ELSE [ok |-> TRUE, text |-> trim(resp.choices[1])]

\* a catch block that also copies what it shows
WritesOutput_always(outcome) == TRUE

\* lines 156-160 run only on the path that did not throw
WritesOutput(outcome) == outcome.ok

RemoveAt(q, i) == SubSeq(q, 1, i - 1) \o SubSeq(q, i + 1, Len(q))

FetchSettles(i, resp) ==
  /\ phase = "running"
  /\ i \in 1..Len(pending)
  /\ pending' = RemoveAt(pending, i)
  /\ LET outcome == Outcome(resp)
     IN /\ result' = outcome.text
        /\ IF WritesOutput(outcome)
             THEN /\ pasteSent < MaxPaste
                  /\ osClipboard' = outcome.text
                  /\ osImage' = NoImage
                  /\ afterPrivacy' = AfterCopy(outcome.text)
                  /\ pasteSent' = pasteSent + 1
             ELSE UNCHANGED <<osVars, afterPrivacy, pasteSent>>
        /\ lastOp' = Op("settle", resp.kind, outcome.ok, FALSE, 0)
  /\ isLoading' = FALSE
  /\ UNCHANGED <<host000Vars, hostMainVars, query, actions, selectedIndex,
                 showSettings, view, rendVars, lsVars, hostVars, now>>

\* part_000, lines 69-75: the ipcMain.on('smart-paste') listener takes a
\* message and runs the command that types Ctrl+V, at once
HostSmartPaste ==
  /\ host = Part000
  /\ pasteSent > 0
  /\ pasteSent' = pasteSent - 1
  /\ UNCHANGED <<osVars, host000Vars, hostMainVars, uiVars, rendVars, lsVars,
                 pending, hostVars, now, lastOp, afterPrivacy>>

\* main.cjs, lines 85-87 and 92: the listener hides the window and sets a timer
SmartPasteMain ==
  /\ host = MainCjs
  /\ pasteSent > 0
  /\ timers < MaxPaste
  /\ pasteSent' = pasteSent - 1
  /\ window' = "hidden"
  /\ timers' = timers + 1
  /\ UNCHANGED <<osVars, host000Vars, hostMainVars, uiVars, rendVars, lsVars,
                 pending, host, uncaught, now, lastOp, afterPrivacy>>

\* main.cjs, lines 87-92: the timer's callback runs the command that types Ctrl+V
PasteTimerFires ==
  /\ timers > 0
  /\ timers' = timers - 1
  /\ UNCHANGED <<osVars, host000Vars, hostMainVars, uiVars, rendVars, lsVars,
                 pending, pasteSent, host, window, uncaught, now, lastOp,
                 afterPrivacy>>

\* the search box, line 222, with the detectActions effect
Queries == {"", "zzz"}

SetQuery(q) ==
  /\ phase = "running"
  /\ q # query
  /\ query' = q
  /\ actions' = DetectActions(clipboardText, q)
  /\ selectedIndex' = 0
  /\ lastOp' = Op("setQuery", q, TRUE, FALSE, 0)
  /\ UNCHANGED <<osVars, host000Vars, hostMainVars, result, isLoading, showSettings,
                 view, rendVars, lsVars, aiVars, now, afterPrivacy>>

\* the credential field of the settings panel, line 263, with its effect
ApiKeys == {"", "gsk_1"}

SetApiKey(key) ==
  /\ phase = "running"
  /\ showSettings
  /\ key # apiKey
  /\ apiKey' = key
  /\ lsApiKey' = Stored(key)
  /\ lastOp' = Op("setApiKey", key, TRUE, FALSE, 0)
  /\ UNCHANGED <<osVars, host000Vars, hostMainVars, uiVars, phase, clipboardText,
                 isPrivacyMode, historyItems, lsHistory, aiVars, now, afterPrivacy>>

(***************************************************************************)
(* app.quit() followed by a new launch: both processes start over, only    *)
(* localStorage and the OS clipboard survive.                              *)
(***************************************************************************)
Relaunch ==
  /\ phase \in {"running", "crashed"}
  /\ phase' = "boot"
  /\ lastText' = osClipboard
  /\ prevRead' = osClipboard
  /\ ipc' = <<>>
  /\ mLastText' = osClipboard
  /\ mLastImage' = ""
  /\ mPrevRead' = osClipboard
  /\ mipc' = <<>>
  /\ clipboardText' = ""
  /\ query' = ""
  /\ actions' = <<>>
  /\ result' = ""
  /\ isLoading' = FALSE
  /\ selectedIndex' = 0
  /\ isPrivacyMode' = FALSE
  /\ apiKey' = ""
  /\ showSettings' = FALSE
  /\ historyItems' = <<>>
  /\ view' = "actions"
  /\ pending' = <<>>
  /\ window' = InitialWindow(host)
  /\ timers' = 0
  /\ afterPrivacy' = [ended |-> FALSE, text |-> "",
                       exposed |-> afterPrivacy.exposed \/ osClipboard = TxtSecret]
  /\ lastOp' = Op("relaunch", "", FALSE, FALSE, 0)
  /\ UNCHANGED <<osVars, lsVars, pasteSent, host, uncaught, now>>

(***************************************************************************)
(* Initial states: the host has just started polling, the page is loading. *)
(* Spec is the history pipeline: the OS clipboard, the watcher of part_000 *)
(* (the one that sends the text itself, as handleClipboard expects), the   *)
(* renderer's history handlers, privacy mode, localStorage and relaunch.   *)
(***************************************************************************)
InitHost ==
  /\ lastText = osClipboard
  /\ prevRead = osClipboard
  /\ ipc = <<>>
  /\ mLastText = osClipboard
  /\ mLastImage = ""
  /\ mPrevRead = osClipboard
  /\ mipc = <<>>
  /\ window = InitialWindow(host)
  /\ timers = 0
  /\ uncaught = FALSE

InitRenderer ==
  /\ phase = "boot"
  /\ clipboardText = ""
  /\ query = ""
  /\ actions = <<>>
  /\ result = ""
  /\ isLoading = FALSE
  /\ selectedIndex = 0
  /\ isPrivacyMode = FALSE
  /\ apiKey = ""
  /\ showSettings = FALSE
  /\ historyItems = <<>>
  /\ view = "actions"
  /\ pending = <<>>
  /\ pasteSent = 0
  /\ afterPrivacy = [ended |-> FALSE, text |-> "", exposed |-> FALSE]

\* what a previous run, or a write cut short, can have left under the key
SavedOnce == JSONstringify(<<NewEntry(TxtA, 0)>>)
Truncated == SubSeq(SavedOnce, 1, Len(SavedOnce) - 2)
InitHistoryBlobs == {Absent, Stored(""), Stored(SavedOnce), Stored(Truncated)}

Init ==
  /\ osClipboard \in Texts
  /\ osImage = NoImage
  /\ host = Part000
  /\ InitHost
  /\ InitRenderer
  /\ lsHistory \in InitHistoryBlobs
  /\ lsApiKey = Absent
  /\ now = 1
  /\ lastOp = Op("init", "", FALSE, FALSE, 0)

Next ==
  \/ \E t \in Texts : OSCopy(t, NoImage)
  \/ ClockAdvance
  \/ Tick000
  \/ DropUnheard000
  \/ Startup
  \/ HandleClipboard
  \/ \E idx \in 1..HistoryCap : DeleteHistoryItem(idx)
  \/ \E confirmed \in BOOLEAN : ClearHistory(confirmed)
  \/ \E idx \in 1..HistoryCap : RestoreClick(idx)
  \/ TogglePrivacy
  \/ ToggleView
  \/ Relaunch

Spec == Init /\ [][Next]_vars

(***************************************************************************)
(* Properties of the history pipeline (specification Spec).                *)
(***************************************************************************)

\* C1: no two entries of historyItems have the same content, and once the
\* handler has saved a text, the single entry holding it is the head, the
\* entry that save created.
C1_NoDuplicateContent ==
  /\ \A i, j \in 1..Len(historyItems) :
       i # j => historyItems[i].content # historyItems[j].content
  /\ (phase = "running" /\ lastOp.op = "handleClipboard" /\ lastOp.flag)
       => /\ historyItems # <<>>
          /\ historyItems[1].content = lastOp.text
          /\ Cardinality({i \in 1..Len(historyItems) :
                            historyItems[i].content = lastOp.text}) = 1

\* a text already in the history has just been saved again, next to another
C1_Witness ==
  /\ phase = "running"
  /\ lastOp.op = "handleClipboard"
  /\ lastOp.flag
  /\ lastOp.had
  /\ Len(historyItems) >= 2

\* the step in which the renderer's listener takes a message off the channel
HandlerStep ==
  /\ phase = "running"
  /\ ipc # <<>>
  /\ ipc' = Tail(ipc)
  /\ lastOp'.op = "handleClipboard"
  /\ lastOp'.text = Head(ipc)

\* C3: a clipboard-changed event received while isPrivacyMode is true leaves
\* historyItems and clipboardText as they were.
C3_PrivacyModeFrame ==
  [][(HandlerStep /\ isPrivacyMode)
       => (historyItems' = historyItems /\ clipboardText' = clipboardText)]_vars

\* an event carrying a new non-empty text has been received in privacy mode
C3_Witness ==
  /\ phase = "running"
  /\ isPrivacyMode
  /\ lastOp.op = "handleClipboard"
  /\ lastOp.text # ""
  /\ lastOp.text # clipboardText
  /\ ~lastOp.had

\* C4: once privacy mode has been switched off, a non-empty text the watcher
\* sampled and the renderer received is the content of the head entry.
C4_CapturedAfterPrivacy ==
  (/\ phase = "running"
   /\ afterPrivacy.ended
   /\ lastOp.text = afterPrivacy.text
   /\ ~isPrivacyMode
   /\ lastOp.op = "handleClipboard"
   /\ lastOp.text # "")
    => (historyItems # <<>> /\ historyItems[1].content = lastOp.text)

\* C10: mounting with an absent or unparsable value under the history key
\* leaves the application running with an empty history.
C10_StartsWithEmptyHistory ==
  (lastOp.op = "startup" /\ ~JSONparse(lastOp.text).ok)
    => (phase = "running" /\ historyItems = <<>>)

\* C12: entry ids are pairwise distinct, and deleting an entry removes that
\* entry alone, the others keeping their order.
C12_DeleteRemovesOne ==
  /\ [](\A i, j \in 1..Len(historyItems) :
          i # j => historyItems[i].id # historyItems[j].id)
  /\ [][\A idx \in 1..Len(historyItems) :
          DeleteHistoryItem(idx) => historyItems' = RemoveAt(historyItems, idx)]_vars

\* the entries of items other than the one holding content, in their order
Others(items, content) == SelectSeq(items, LAMBDA i : i.content # content)

PrefilledText(k) == "t" \o NumStr(k)

\* entries captured at times 1..n, the most recent first
Prefilled(n) == [i \in 1..n |-> NewEntry(PrefilledText(n + 1 - i), n + 1 - i)]

CapTexts == {"n1", "n2"}

InitCap ==
  /\ osClipboard = ""
  /\ osImage = NoImage
  /\ host = Part000
  /\ InitHost
  /\ InitRenderer
  /\ lsHistory = Stored(JSONstringify(Prefilled(HistoryCap - 1)))
  /\ lsApiKey = Absent
  /\ now = HistoryCap
  /\ lastOp = Op("init", "", FALSE, FALSE, 0)

NextCap ==
  \/ Startup
  \/ \E t \in CapTexts : OSCopy(t, NoImage)
  \/ Tick000
  \/ DropUnheard000
  \/ HandleClipboard
  \/ ToggleView
  \/ DeleteHistoryItem(1)
  \/ \E confirmed \in BOOLEAN : ClearHistory(confirmed)

SpecCap == InitCap /\ [][NextCap]_vars

\* C2: historyItems never holds more than HistoryCap entries, and a save of
\* a new text into a full history keeps the first HistoryCap - 1 entries in
\* order behind the new one, so that the entry dropped is the tail.
C2_NeverExceedsCap ==
  /\ [](Len(historyItems) <= HistoryCap)
  /\ [][(/\ HandlerStep
         /\ lastOp'.flag
         /\ Len(historyItems) = HistoryCap
         /\ ~Holds(historyItems, Head(ipc)))
          => /\ Len(historyItems') = HistoryCap
             /\ historyItems'[1].content = Head(ipc)
             /\ SubSeq(historyItems', 2, HistoryCap)
                  = SubSeq(historyItems, 1, HistoryCap - 1)]_vars

\* a new text has just been saved into a history that was full
C2_Witness ==
  /\ phase = "running"
  /\ lastOp.op = "handleClipboard"
  /\ lastOp.flag
  /\ ~lastOp.had
  /\ lastOp.len = HistoryCap
  /\ Len(historyItems) = HistoryCap

(***************************************************************************)
(* The two watchers alone (specification SpecWatch): the page is still     *)
(* loading, so what they send is heard by nobody.                          *)
(***************************************************************************)
InitWatch ==
  /\ osClipboard \in Texts
  /\ osImage \in Images
  /\ host = Part000
  /\ InitHost
  /\ InitRenderer
  /\ lsHistory = Absent
  /\ lsApiKey = Absent
  /\ now = 1
  /\ lastOp = Op("init", "", FALSE, FALSE, 0)

NextWatch ==
  \/ \E t \in Texts, img \in Images : OSCopy(t, img)
  \/ Tick000
  \/ TickMain
  \/ DropUnheard000
  \/ DropUnheardMain

SpecWatch == InitWatch /\ [][NextWatch]_vars

\* the messages a tick of main.cjs added to its channel
SentByMain == SubSeq(mipc', Len(mipc) + 1, Len(mipc'))

TextSentByMain == \E k \in 1..Len(SentByMain) : SentByMain[k].type = "text"

\* C5: in every polling tick a text change event is sent exactly when the
\* text read differs from the last-observed text, and after the tick the
\* last-observed text is the text just read; for both watchers and for every
\* text read, the empty string included.
C5_EmitsExactlyOnChange ==
  [][/\ Tick000
          => /\ (ipc' = Append(ipc, osClipboard)) <=> (osClipboard # lastText)
             /\ (ipc' = ipc) <=> (osClipboard = lastText)
             /\ lastText' = osClipboard
     /\ TickMain
          => /\ TextSentByMain <=> (osClipboard # mLastText)
             /\ mLastText' = osClipboard]_vars

\* C6: a tick that reads the same text as the sample before it sends no
\* text change event.
C6_NoRepeatedEvent ==
  [][/\ (Tick000 /\ osClipboard = prevRead) => ipc' = ipc
     /\ (TickMain /\ osClipboard = mPrevRead) => ~TextSentByMain]_vars

\* both watchers have just sampled a non-empty text for the second time in a row
C6_Witness ==
  /\ lastOp.op \in {"tick000", "tickMain"}
  /\ ~lastOp.flag
  /\ lastOp.text # ""
  /\ prevRead = lastOp.text
  /\ mPrevRead = lastOp.text
  /\ lastText = lastOp.text
  /\ mLastText = lastOp.text

(***************************************************************************)
(* Running transforms (specification SpecAI): a launch with or without a   *)
(* stored credential, the controls of the actions view and the endpoint's  *)
(* answers; the watcher reports what runAI writes to the clipboard.        *)
(***************************************************************************)
InitAI ==
  /\ osClipboard = TxtA
  /\ osImage = NoImage
  /\ host = Part000
  /\ InitHost
  /\ InitRenderer
  /\ lsHistory = Absent
  /\ lsApiKey \in {Absent, Stored("gsk_1")}
  /\ now = 1
  /\ lastOp = Op("init", "", FALSE, FALSE, 0)

NextAI ==
  \/ Startup
  \/ Tick000
  \/ HandleClipboard
  \/ ToggleSettings
  \/ \E q \in Queries : SetQuery(q)
  \/ \E key \in ApiKeys : SetApiKey(key)
  \/ ClickAction(1)
  \/ ClickCustom
  \/ KeyEnter
  \/ \E i \in 1..MaxPending, resp \in Responses : FetchSettles(i, resp)
  \/ HostSmartPaste

SpecAI == InitAI /\ [][NextAI]_vars

\* the steps in which a control of the palette calls runAI
CallsRunAI ==
  /\ lastOp'.op = "runAI"
  /\ \/ KeyEnter
     \/ ClickCustom
     \/ \E idx \in 1..Len(actions) : ClickAction(idx)

\* C7: runAI called while apiKey is empty starts no fetch, writes nothing to
\* the clipboard, sends no smart-paste, leaves isLoading and result as they
\* were and sets showSettings.
C7_NoKeyNoRequest ==
  [][(CallsRunAI /\ apiKey = "")
       => /\ pending' = pending
          /\ osClipboard' = osClipboard
          /\ osImage' = osImage
          /\ pasteSent' = pasteSent
          /\ isLoading' = isLoading
          /\ result' = result
          /\ showSettings' = TRUE]_vars

\* runAI has just been called from the open actions view without a credential
C7_Witness ==
  /\ phase = "running"
  /\ lastOp.op = "runAI"
  /\ ~lastOp.flag
  /\ apiKey = ""
  /\ showSettings
  /\ view = "actions"
  /\ pending = <<>>

\* the steps in which a fetch of runAI ends in the catch block for one of:
\* a network error, a body that is not JSON, a JSON without a choices field
SettlesFailed ==
  /\ lastOp'.op = "settle"
  /\ lastOp'.text \in {"reject", "badJSON", "noChoices"}
  /\ \E i \in 1..Len(pending), resp \in Responses :
       resp.kind = lastOp'.text /\ FetchSettles(i, resp)

IsErrorMessage(text) ==
  StartsWithAt(text, 1, "Error: ") /\ Len(text) > Len("Error: ")

\* C8: when the remote transform fails, runAI ends with an error message in
\* result and changes neither the OS clipboard nor historyItems, and sends no
\* smart-paste.
C8_FailureLeavesStateAlone ==
  [][SettlesFailed
       => /\ IsErrorMessage(result')
          /\ osClipboard' = osClipboard
          /\ osImage' = osImage
          /\ historyItems' = historyItems
          /\ lsHistory' = lsHistory
          /\ pasteSent' = pasteSent]_vars

\* a failed transform has just ended, with a text captured in the history
C8_Witness ==
  /\ phase = "running"
  /\ lastOp.op = "settle"
  /\ lastOp.text \in {"reject", "badJSON", "noChoices"}
  /\ IsErrorMessage(result)
  /\ historyItems # <<>>
  /\ ~isLoading

\* C9: no two fetches started from the same control are pending together.
C9_OneInFlightPerTrigger ==
  \A i, j \in 1..Len(pending) :
    i # j => pending[i].trigger # pending[j].trigger

\* the step started one fetch whose user message is prefix, an empty line,
\* and the clipboard snapshot
Sends(prefix) ==
  /\ Len(pending') = Len(pending) + 1
  /\ SubSeq(pending', 1, Len(pending)) = pending
  /\ pending'[Len(pending')].user = prefix \o "\n\n" \o clipboardText

\* the steps in which runAI, given a credential, is called with each kind of
\* argument, send the message built from that argument's promptPrefix
SendsPromptAndSnapshot ==
  /\ \A idx \in 1..Len(actions) :
       (apiKey # "" /\ ClickAction(idx)) => Sends(actions[idx].prompt)
  /\ (apiKey # "" /\ ClickCustom) => Sends(query \o ": ")
  /\ (lastOp'.op = "runAI" /\ lastOp'.flag /\ KeyEnter)
       => Sends(IF actions # <<>> THEN actions[selectedIndex + 1].prompt
                ELSE query \o ": ")

\* out is raw without the white space at its two ends
Trimmed(out, raw) ==
  /\ \E a, b \in 0..Len(raw) :
       /\ a + b <= Len(raw)
       /\ out = SubSeq(raw, a + 1, Len(raw) - b)
       /\ \A k \in (1..a) \cup ((Len(raw) - b + 1)..Len(raw)) :
            IsSpace(SubSeq(raw, k, k))
  /\ out # "" => (~IsSpace(Head(out)) /\ ~IsSpace(SubSeq(out, Len(out), Len(out))))

\* the steps in which a fetch of runAI ends with a choices list that has a
\* first choice
SettlesWith(i, resp) ==
  resp.kind = "choices" /\ resp.choices # <<>> /\ FetchSettles(i, resp)

\* C15 as stated: on an answer with choices, result is the text of the first
\* choice, that text is on the OS clipboard when smart-paste is sent, and the
\* user message was promptPrefix, an empty line, and the clipboard snapshot.
C15_ResultIsFirstChoice ==
  [][/\ \A i \in 1..Len(pending), resp \in Responses :
          SettlesWith(i, resp)
            => /\ result' = resp.choices[1]
               /\ osClipboard' = result'
               /\ pasteSent' = pasteSent + 1
     /\ SendsPromptAndSnapshot]_vars

\* C15, amended: on an answer with choices, result is the text of the first
\* choice without the white space at its ends, that result is on the OS
\* clipboard when smart-paste is sent, and the user message was
\* promptPrefix, an empty line, and the clipboard snapshot.
C15_ResultIsTrimmedFirstChoice ==
  [][/\ \A i \in 1..Len(pending), resp \in Responses :
          SettlesWith(i, resp)
            => /\ Trimmed(result', resp.choices[1])
               /\ osClipboard' = result'
               /\ pasteSent' = pasteSent + 1
     /\ SendsPromptAndSnapshot]_vars

\* a transform of a captured text has just ended with choices: its trimmed
\* first choice is the result and on the clipboard, smart-paste is on its way
C15_Witness ==
  /\ phase = "running"
  /\ lastOp.op = "settle"
  /\ lastOp.flag
  /\ clipboardText # ""
  /\ Trimmed(result, Completed.choices[1])
  /\ result # Completed.choices[1]
  /\ osClipboard = result
  /\ pasteSent = 1

(***************************************************************************)
(* The stored history across launches (specification SpecStore): copies of *)
(* texts that JSON has to escape, deletions, clears, and quitting and      *)
(* launching again.                                                        *)
(***************************************************************************)
TxtQuoted == "say \"hi\""
TxtPath == "a\\b"
StoreTexts == {TxtQuoted, TxtPath}

InitStore ==
  /\ osClipboard = ""
  /\ osImage = NoImage
  /\ host = Part000
  /\ InitHost
  /\ InitRenderer
  /\ lsHistory = Absent
  /\ lsApiKey = Absent
  /\ now = 1
  /\ lastOp = Op("init", "", FALSE, FALSE, 0)

NextStore ==
  \/ \E t \in StoreTexts : OSCopy(t, NoImage)
  \/ ClockAdvance
  \/ Tick000
  \/ DropUnheard000
  \/ Startup
  \/ HandleClipboard
  \/ \E idx \in 1..HistoryCap : DeleteHistoryItem(idx)
  \/ \E confirmed \in BOOLEAN : ClearHistory(confirmed)
  \/ ToggleView
  \/ Relaunch

SpecStore == InitStore /\ [][NextStore]_vars

\* the history a launch would load from what is stored now
Reloaded == LoadHistory(lsHistory)

\* C11: while the application runs, parsing the value stored under the
\* history key gives historyItems itself, the same entries with the same
\* fields in the same order; and that is what a launch starts with.
C11_ReloadYieldsHistory ==
  /\ [](phase = "running"
         => (lsHistory.present /\ Reloaded.ok /\ Reloaded.val = historyItems))
  /\ [][(phase = "boot" /\ phase' = "running")
         => historyItems' = Reloaded.val]_vars

\* a launch has just loaded two entries whose texts JSON had to escape
C11_Witness ==
  /\ phase = "running"
  /\ lastOp.op = "startup"
  /\ lastOp.flag
  /\ Len(historyItems) = 2
  /\ Holds(historyItems, TxtQuoted)
  /\ Holds(historyItems, TxtPath)
  /\ Reloaded.val = historyItems

(***************************************************************************)
(* Pasting the result (specification SpecPaste): either host script, the   *)
(* window shown, hidden and left for another application, a transform run  *)
(* from the actions view, and the host's smart-paste listener.             *)
(***************************************************************************)
InitPaste ==
  /\ osClipboard = TxtA
  /\ osImage = NoImage
  /\ host \in Hosts
  /\ InitHost
  /\ InitRenderer
  /\ lsHistory = Absent
  /\ lsApiKey = Stored("gsk_1")
  /\ now = 1
  /\ lastOp = Op("init", "", FALSE, FALSE, 0)

NextPaste ==
  \/ Startup
  \/ AltSpace
  \/ Blur
  \/ FocusWindow
  \/ ClickAction(1)
  \/ KeyEnter
  \/ KeyEscape
  \/ \E i \in 1..MaxPending, resp \in {Completed, NetworkError} :
       FetchSettles(i, resp)
  \/ HostSmartPaste
  \/ SmartPasteMain
  \/ PasteTimerFires

SpecPaste == InitPaste /\ [][NextPaste]_vars

\* the steps in which a host runs the command that types Ctrl+V
KeystrokeIssued == HostSmartPaste \/ PasteTimerFires

\* C14: when a host runs the paste keystroke command, its smart-paste
\* listener has hidden the window in an earlier step and the window is
\* hidden, so it does not own the input focus.
C14_HiddenBeforeKeystroke ==
  [][KeystrokeIssued => window = "hidden"]_vars

(***************************************************************************)
(* Offering actions (specification SpecDetect): copies of plain text, of   *)
(* code and of a sentence that starts with a capitalised marker, and the   *)
(* search box.                                                             *)
(***************************************************************************)
TxtImport == "Import it"
DetectTexts == {TxtA, TxtB, TxtImport}
DetectQueries == {"", "CODE", "s", "zzz"}

InitDetect ==
  /\ osClipboard = ""
  /\ osImage = NoImage
  /\ host = Part000
  /\ InitHost
  /\ InitRenderer
  /\ lsHistory = Absent
  /\ lsApiKey = Absent
  /\ now = 1
  /\ lastOp = Op("init", "", FALSE, FALSE, 0)

NextDetect ==
  \/ Startup
  \/ \E t \in DetectTexts : OSCopy(t, NoImage)
  \/ Tick000
  \/ DropUnheard000
  \/ HandleClipboard
  \/ \E q \in DetectQueries : SetQuery(q)

SpecDetect == InitDetect /\ [][NextDetect]_vars

Markers ==
  {"{", "function", "const ", "import ", "</div>", "public class", "def ", "=>"}

\* the kind of a text: code when it holds a marker, in any letter case
KindOf(clip) ==
  IF \E m \in Markers : Includes(toLowerCase(clip), m) THEN "code" ELSE "text"

\* the rows of the preset table to offer for a clipboard text and a query
Offered(clip, q) ==
  {k \in 1..Len(PRESETS) :
     /\ PRESETS[k].category \in {"all", KindOf(clip)}
     /\ Includes(toLowerCase(PRESETS[k].label), toLowerCase(q))}

\* C16: the actions offered are the presets whose category is "all" or the
\* kind of the clipboard snapshot (code when its lower-cased text holds a
\* marker, text otherwise) and whose label holds the query, letter case
\* ignored; each of them once, in the order of the table, and no other.
C16_OffersMatchingPresets ==
  phase = "running"
    => LET rows == Offered(clipboardText, query)
       IN /\ Len(actions) = Cardinality(rows)
          /\ \A i \in 1..Len(actions) :
               \E k \in rows :
                 /\ actions[i] = PRESETS[k]
                 /\ Cardinality({j \in rows : j <= k}) = i

\* code is on the clipboard and the query, in capitals, names one code preset
C16_Witness ==
  /\ phase = "running"
  /\ clipboardText = TxtB
  /\ query = "CODE"
  /\ Len(actions) = 1
  /\ actions[1].id = "explain-code"
  /\ actions[1].category = "code"

(***************************************************************************)
(* Custom prompts (specification SpecCustom): a launch with or without a   *)
(* stored credential, one copy of code, queries that match no preset,      *)
(* short and long, the Enter key, and fetches that fail.                   *)
(***************************************************************************)
CustomQueries == {"", "qq", "zzz"}

InitCustom ==
  /\ osClipboard = TxtA
  /\ osImage = NoImage
  /\ host = Part000
  /\ InitHost
  /\ InitRenderer
  /\ lsHistory = Absent
  /\ lsApiKey \in {Absent, Stored("gsk_1")}
  /\ now = 1
  /\ lastOp = Op("init", "", FALSE, FALSE, 0)

NextCustom ==
  \/ Startup
  \/ OSCopy(TxtB, NoImage)
  \/ Tick000
  \/ HandleClipboard
  \/ \E q \in CustomQueries : SetQuery(q)
  \/ KeyEnter
  \/ \E i \in 1..MaxPending : FetchSettles(i, NetworkError)

SpecCustom == InitCustom /\ [][NextCustom]_vars

\* the Enter key is pressed in the actions view while no preset is offered
EnterWithoutPreset == view = "actions" /\ actions = <<>> /\ KeyEnter

\* C17 as stated: Enter with no preset offered starts one fetch whose
\* promptPrefix is the query when the query has more than 2 characters, and
\* starts none when it is shorter.
C17_EnterSendsRawQuery ==
  [][EnterWithoutPreset
       => IF Len(query) > 2 THEN Sends(query) ELSE pending' = pending]_vars

\* C17, amended: Enter with no preset offered starts one fetch whose
\* promptPrefix is the query followed by a colon and a space when a
\* credential is set and the query has more than 2 characters, and starts
\* none when the query is shorter or no credential is set.
C17_EnterSendsQueryWithColon ==
  [][EnterWithoutPreset
       => IF Len(query) > 2 /\ apiKey # ""
            THEN Sends(query \o ": ")
            ELSE pending' = pending]_vars

\* Enter has just sent a query that matches no preset, for a captured text
C17_Witness ==
  /\ phase = "running"
  /\ lastOp.op = "runAI"
  /\ lastOp.text = "enter"
  /\ lastOp.flag
  /\ view = "actions"
  /\ actions = <<>>
  /\ query = "zzz"
  /\ clipboardText = TxtB
  /\ pending # <<>>
  /\ pending[Len(pending)].user = "zzz: \n\nx=>1"

(***************************************************************************)
(* Failing reads (specification SpecWatchFail): the two watchers with a    *)
(* clipboard whose read can throw in any tick.                             *)
(***************************************************************************)
NextWatchFail ==
  \/ NextWatch
  \/ Tick000ReadFails
  \/ TickMainReadFails

SpecWatchFail == InitWatch /\ [][NextWatchFail]_vars

\* C18: no exception leaves a polling callback when a read throws, and every
\* tick whose read succeeds, after a failed one as well, sends the text it
\* read when that text differs from the last-observed one.
C18_ReadErrorSwallowed ==
  /\ [](~uncaught)
  /\ [][/\ (Tick000 /\ osClipboard # lastText)
            => ipc' = Append(ipc, osClipboard)
        /\ (TickMain /\ osClipboard # "" /\ osClipboard # mLastText)
            => TextSentByMain]_vars

(***************************************************************************)
(* Moving the selection (specification SpecUI): a launch that loads two    *)
(* stored entries and no credential; arrow keys, the pointer, the view     *)
(* toggle, the search box, Enter (which calls runAI or restores an entry), *)
(* Escape, deletions and clipboard events.                                 *)
(***************************************************************************)
UIStored == Prefilled(2)
UIQueries == {"fix"}

InitUI ==
  /\ osClipboard = ""
  /\ osImage = NoImage
  /\ host = Part000
  /\ InitHost
  /\ InitRenderer
  /\ lsHistory = Stored(JSONstringify(UIStored))
  /\ lsApiKey = Absent
  /\ now = Len(UIStored) + 1
  /\ lastOp = Op("init", "", FALSE, FALSE, 0)

NextUI ==
  \/ Startup
  \/ \E q \in UIQueries : SetQuery(q)
  \/ ToggleView
  \/ KeyArrowDown
  \/ KeyArrowUp
  \/ \E idx \in 1..Len(PRESETS) : MouseEnterAction(idx)
  \/ \E idx \in 1..HistoryCap : MouseEnterHistory(idx)
  \/ KeyEnter
  \/ \E idx \in 1..HistoryCap : DeleteHistoryItem(idx)
  \/ KeyEscape
  \/ Tick000
  \/ HandleClipboard

SpecUI == InitUI /\ [][NextUI]_vars

\* C19: selectedIndex is an index of the list shown, or 0 when that list is
\* empty, and Enter in the actions view with actions offered passes one of
\* them to runAI.
C19_SelectedIndexValid ==
  /\ [](phase = "running"
         => IF ShownList = <<>> THEN selectedIndex = 0
            ELSE selectedIndex \in 0..(Len(ShownList) - 1))
  /\ [][(view = "actions" /\ actions # <<>> /\ KeyEnter)
         => ActionAt(selectedIndex) # Undefined]_vars

(***************************************************************************)
(* The loading indicator (specification SpecLoad): a launch with a         *)
(* credential and two stored entries; the search box, the view toggle,     *)
(* ArrowDown, Enter and a click on the first action; every answer of the   *)
(* endpoint, a blank first choice included.                                *)
(***************************************************************************)
LoadResponses == Responses \cup {BlankChoice}

InitLoad ==
  /\ osClipboard = ""
  /\ osImage = NoImage
  /\ host = Part000
  /\ InitHost
  /\ InitRenderer
  /\ lsHistory = Stored(JSONstringify(UIStored))
  /\ lsApiKey = Stored("gsk_1")
  /\ now = Len(UIStored) + 1
  /\ lastOp = Op("init", "", FALSE, FALSE, 0)

NextLoad ==
  \/ Startup
  \/ \E q \in UIQueries : SetQuery(q)
  \/ ToggleView
  \/ KeyArrowDown
  \/ KeyEnter
  \/ ClickAction(1)
  \/ \E i \in 1..MaxPending, resp \in LoadResponses : FetchSettles(i, resp)
  \/ HostSmartPaste

SpecLoad == InitLoad /\ [][NextLoad]_vars

\* C20: while isLoading is true a fetch of runAI is pending, and the end of
\* a fetch, whatever the answer, leaves isLoading false and result non-empty;
\* so, every fetch ending at some time, no run of runAI leaves isLoading true.
C20_LoadingEnds ==
  /\ [](isLoading => pending # <<>>)
  /\ [][\A i \in 1..Len(pending), resp \in LoadResponses :
          FetchSettles(i, resp) => (~isLoading' /\ result' # "")]_vars

(***************************************************************************)
(* Privacy mode (specification SpecPrivacy): a launch with a credential;   *)
(* the user copies TxtA or TxtSecret, switches privacy mode on and off and *)
(* clicks the first action, while part_000 polls and its messages travel   *)
(* to the renderer.                                                        *)
(***************************************************************************)
InitPrivacy ==
  /\ osClipboard = ""
  /\ osImage = NoImage
  /\ host = Part000
  /\ InitHost
  /\ InitRenderer
  /\ lsHistory = Absent
  /\ lsApiKey = Stored("gsk_1")
  /\ now = 1
  /\ lastOp = Op("init", "", FALSE, FALSE, 0)

NextPrivacy ==
  \/ Startup
  \/ \E t \in {TxtA, TxtSecret} : OSCopy(t, NoImage)
  \/ Tick000
  \/ HandleClipboard
  \/ TogglePrivacy
  \/ ClickAction(1)
  \/ \E i \in 1..MaxPending : FetchSettles(i, NetworkError)

SpecPrivacy == InitPrivacy /\ [][NextPrivacy]_vars

\* the user message of a request of runAI carries the text clip
Carries(msg, clip) ==
  /\ Len(msg.user) >= Len(clip)
  /\ SubSeq(msg.user, Len(msg.user) - Len(clip) + 1, Len(msg.user)) = clip

\* C21: as long as TxtSecret has been on the OS clipboard only while privacy
\* mode was on, no history entry has it as content, it is not the text runAI
\* would send, and no request of runAI carries it.
C21_PrivateTextNeverKept ==
  ~afterPrivacy.exposed =>
     /\ \A i \in 1..Len(historyItems) : historyItems[i].content # TxtSecret
     /\ clipboardText # TxtSecret
     /\ \A i \in 1..Len(pending) : ~Carries(pending[i], TxtSecret)

(***************************************************************************)
(* The payload of 'clipboard-changed' (specification SpecShape): the       *)
(* window is created by either host script; the user copies texts, toggles *)
(* privacy mode and the settings panel; the host polls and the renderer    *)
(* handles what it is sent, within one run of the application.             *)
(***************************************************************************)
InitShape ==
  /\ osClipboard = ""
  /\ osImage = NoImage
  /\ host \in Hosts
  /\ InitHost
  /\ InitRenderer
  /\ lsHistory = Absent
  /\ lsApiKey = Absent
  /\ now = 1
  /\ lastOp = Op("init", "", FALSE, FALSE, 0)

NextShape ==
  \/ Startup
  \/ \E t \in {TxtA, TxtB} : OSCopy(t, NoImage)
  \/ (host = Part000 /\ Tick000)
  \/ (host = MainCjs /\ TickMain)
  \/ HandleClipboard
  \/ HandleClipboardMain
  \/ DropUnheard000
  \/ DropUnheardMain
  \/ TogglePrivacy
  \/ ToggleSettings

SpecShape == InitShape /\ [][NextShape]_vars

\* the renderer is left running with t as its clipboard text and as the
\* content of the head entry of the history
StoresText(t) ==
  /\ phase' = "running"
  /\ clipboardText' = t
  /\ historyItems' # <<>>
  /\ historyItems'[1].content = t

\* C22: whichever watcher sent it, a clipboard-changed message that passes
\* the handler's test makes a history entry whose content is the text the
\* watcher read from the OS clipboard, and makes that text the clipboard text
\* later messages are compared with.
C22_EntryHoldsClipboardText ==
  [][/\ (ipc # <<>> /\ lastOp'.flag /\ HandleClipboard)
          => StoresText(Head(ipc))
     /\ (mipc # <<>> /\ lastOp'.flag /\ HandleClipboardMain)
          => StoresText(Head(mipc).content)]_vars

====
